---- MODULE Spec2Model ----
(***************************************************************************)
(* A model of the llm-grader pipeline: prompt template selection, the      *)
(* provider client (evaluate_code / test_connection), the response parsers *)
(* (parse_json_response, _parse_json_result, _parse_simple_result,         *)
(* _parse_text_result), the engine's grade_code / grade_batch and the      *)
(* CodeGrader facade.                                                      *)
(*                                                                         *)
(* A text is a sequence of tokens; every token is a fixed chunk of         *)
(* characters.  Digit runs are maximal: no text holds two adjacent digit   *)
(* run tokens.  Python's None and JSON's null are the same value, None.    *)
(***************************************************************************)
EXTENDS Integers, Sequences, FiniteSets, TLC

VARIABLES
    facade,     \* the CodeGrader object: its construction state, its provider
                \* and the response to its connectivity request
    requests,   \* number of outbound provider requests issued so far
    pc,         \* position of the current grade_code call in its state machine
    call,       \* the current / last grade_code call: inputs, response, outcome
    trace,      \* the phases the current / last grade_code call went through
    batch       \* the current / last grade_batch call: inputs, results, status

vars == <<facade, requests, pc, call, trace, batch>>

(***************************************************************************)
(* Bounds of the model.                                                    *)
(***************************************************************************)
\* largest number of segments a scanned response text is concatenated from
MaxSegs == 2
\* largest number of tokens of a fenced response text
MaxFenceLen == 4
\* largest number of submissions in one batch
MaxBatch == 2
\* largest number of outbound requests followed in one behaviour
MaxRequests == 3
\* largest elapsed time of one provider call
MaxElapsed == 2

\* the most prompts PromptSpec generates in one behaviour
MaxPrompts == 3

(***************************************************************************)
(* Values.                                                                 *)
(***************************************************************************)
None == [t |-> "none"]

\* Body applied to value, with value computed once
Bind(value, Body(_)) == CHOOSE r \in {Body(v) : v \in {value}} : TRUE

\* a number: integer part n, f the digits after the decimal point read as a
\* number with its trailing zeros dropped (0 when there are none), and off,
\* the distance from n, in units in the last place, that floating point
\* arithmetic left the value at
Num(n) == [t |-> "num", n |-> n, f |-> 0, off |-> 0]

RECURSIVE DropTrailingZeros(_)
DropTrailingZeros(m) ==
    IF m = 0 THEN 0
    ELSE IF m % 10 = 0 THEN DropTrailingZeros(m \div 10)
    ELSE m

NumFrac(n, m) == [t |-> "num", n |-> n, f |-> DropTrailingZeros(m), off |-> 0]

NumOff(n, off) == [t |-> "num", n |-> n, f |-> 0, off |-> off]

Str(s) == [t |-> "str", s |-> s]

Bool(b) == [t |-> "bool", b |-> b]

List(items) == [t |-> "list", items |-> items]

Dict(o) == [t |-> "dict", o |-> o]

\* Python truthiness (bool(v))
Truthy(v) ==
    CASE v.t = "none" -> FALSE
      [] v.t = "num"  -> ~(v.n = 0 /\ v.f = 0 /\ v.off = 0)
      [] v.t = "str"  -> v.s # <<>>
      [] v.t = "bool" -> v.b
      [] v.t = "list" -> v.items # <<>>
      [] v.t = "dict" -> DOMAIN v.o # {}

(***************************************************************************)
(* Tokens of texts.  A text (a response, a message) is a sequence of       *)
(* tokens, each standing for a fixed chunk of characters:                  *)
(*   Lit(s)     the characters s                                           *)
(*   Digits(n)  the decimal digits of n, a maximal run, no leading zeros   *)
(*   Json(v)    the serialisation of the JSON object, array, string or     *)
(*              keyword v; it holds no label, code fence or percent sign   *)
(*   Frag(tok)  the characters of tok without the last one                 *)
(***************************************************************************)
Lit(s) == [k |-> "lit", s |-> s]

Digits(n) == [k |-> "digits", n |-> n]

Json(v) == [k |-> "json", v |-> v]

Frag(tok) == [k |-> "frag", of |-> tok]

\* the three backquotes that open or close a Markdown code fence
Fence == Lit("FENCE")

\* the word json, the language tag of a fence
JsonTag == Lit("json")

Space == Lit(" ")

Newline == Lit("NL")

Slash == Lit("/")

Percent == Lit("%")

Dot == Lit(".")

\* a word of prose: no digit, label, fence, quote or percent sign in it
Word == Lit("w")

\* a double quote followed by a letter: the start of a JSON string
\* a run of opening brackets longer than the interpreter's recursion limit
DeepNesting == Lit("[[[ beyond the recursion limit")

StrOpen == Lit("QUOTE-a")

\* a letter followed by a double quote: the end of a JSON string
StrClose == Lit("b-QUOTE")

IsWhitespace(tok) == tok \in {Space, Newline}

IsDigits(tok) == tok.k = "digits"

\* the digit run starts with the characters 100
RECURSIVE StartsWith100(_)
StartsWith100(n) ==
    IF n < 100 THEN FALSE
    ELSE IF n = 100 THEN TRUE
    ELSE StartsWith100(n \div 10)

\* no two digit runs are adjacent: the tokens are the maximal runs of the text
NormalForm(text) ==
    \A i \in 1..(Len(text) - 1) : ~(IsDigits(text[i]) /\ IsDigits(text[i + 1]))

\* text[from..to], 1-based and inclusive, empty when from > to
Slice(text, from, to) ==
    [i \in 1..(IF to >= from THEN to - from + 1 ELSE 0) |-> text[from + i - 1]]

\* the token of text at position i, or a token that matches nothing past the end
At(text, i) == IF i \in 1..Len(text) THEN text[i] ELSE Lit("")

\* the text without its last character (Python text[:-1])
ChopLastChar(text) ==
    IF text = <<>> THEN <<>>
    ELSE LET last == text[Len(text)]
             init == Slice(text, 1, Len(text) - 1)
         IN  IF last \in {Space, Newline, Slash, Percent, Dot, Word} THEN init
             ELSE IF IsDigits(last)
                  THEN (IF last.n < 10 THEN init
                        ELSE Append(init, Digits(last.n \div 10)))
             ELSE Append(init, Frag(last))

\* str.strip(): leading and trailing whitespace removed
RECURSIVE LStrip(_)
LStrip(text) ==
    IF text # <<>> /\ IsWhitespace(Head(text)) THEN LStrip(Tail(text)) ELSE text

RECURSIVE RStrip(_)
RStrip(text) ==
    IF text # <<>> /\ IsWhitespace(text[Len(text)])
    THEN RStrip(Slice(text, 1, Len(text) - 1))
    ELSE text

Strip(text) == RStrip(LStrip(text))

\* str.find(sub, start) for a sub of one or two tokens: the least position
\* >= from where sub occurs, 0 when there is none (Python's -1)
Find(text, sub, from) ==
    LET hits == {i \in from..(Len(text) - Len(sub) + 1) :
                    \A j \in 1..Len(sub) : text[i + j - 1] = sub[j]}
    IN  IF hits = {} THEN 0 ELSE CHOOSE i \in hits : \A h \in hits : i <= h

\* str.rfind(sub): the greatest position where sub occurs, 0 when none
RFind(text, sub) ==
    LET hits == {i \in 1..(Len(text) - Len(sub) + 1) :
                    \A j \in 1..Len(sub) : text[i + j - 1] = sub[j]}
    IN  IF hits = {} THEN 0 ELSE CHOOSE i \in hits : \A h \in hits : i >= h

\* sub in text
Contains(text, sub) == Find(text, sub, 1) # 0

(***************************************************************************)
(* json.loads on a text.  The result is Ok(value), DecodeError(message),    *)
(* or Raised("RecursionError") when the text nests deeper than the         *)
(* interpreter recurses.                                                   *)
(***************************************************************************)
Ok(v) == [raised |-> FALSE, v |-> v]

\* an exception of class exc left the function
Raised(exc) == [raised |-> TRUE, exc |-> exc]

DecodeError(msg) == [raised |-> TRUE, exc |-> "JSONDecodeError", msg |-> msg]

\* the tokens that may stand between the quotes of a JSON string
InString(tok) ==
    /\ tok.k \in {"lit", "digits"}
    /\ tok \notin {Newline, StrOpen, StrClose}

\* the position of the token closing the string opened at position 1: the
\* first StrClose, 0 when a token that no string may hold comes first
StringEnd(text) ==
    LET stops == {i \in 2..Len(text) : ~InString(text[i])}
    IN  IF stops = {} THEN 0
        ELSE LET i == CHOOSE x \in stops : \A y \in stops : x <= y
             IN  IF text[i] = StrClose THEN i ELSE 0

\* JSONDecoder.raw_decode at the start of text: <<value, tokens consumed>>,
\* or <<None, 0>> when no JSON value starts there
RawDecode(text) ==
    IF text = <<>> THEN <<None, 0>>
    ELSE LET first == text[1]
         IN  CASE first.k = "json" -> <<first.v, 1>>
               [] IsDigits(first) ->
                    IF At(text, 2) = Dot /\ IsDigits(At(text, 3))
                    THEN <<NumFrac(first.n, text[3].n), 3>>
                    ELSE <<Num(first.n), 1>>
               [] first = StrOpen ->
                    IF StringEnd(text) = 0 THEN <<None, 0>>
                    ELSE <<Str(<<Lit("a")>> \o Slice(text, 2, StringEnd(text) - 1)
                                \o <<Lit("b")>>),
                           StringEnd(text)>>
               [] OTHER -> <<None, 0>>

json_loads(text) ==
    Bind(LStrip(text), LAMBDA body :
    Bind(RawDecode(body), LAMBDA got :
        IF body # <<>> /\ body[1] \in {DeepNesting, Frag(DeepNesting)}
        THEN Raised("RecursionError")
        ELSE IF got[2] = 0
        THEN DecodeError(
                CASE body # <<>> /\ body[1] \in {StrOpen, Frag(StrOpen)} ->
                        "Unterminated string starting at"
                  [] body # <<>> /\ body[1].k = "frag"
                        /\ body[1].of.k = "json"
                        /\ body[1].of.v.t = "dict" ->
                        "Expecting ',' delimiter"
                  [] OTHER -> "Expecting value")
        ELSE IF LStrip(Slice(body, got[2] + 1, Len(body))) # <<>>
             THEN DecodeError("Extra data")
             ELSE Ok(got[1])))

(***************************************************************************)
(* MultiModelClient.parse_json_response                                    *)
(***************************************************************************)
\* the slice response_text[start:end] of the fenced branches; start is the
\* 1-based position of the first token kept, end the position of the closing
\* fence, 0 when find() returned -1 (the slice then stops before the last
\* character of the text)
FenceSlice(text, start, end) ==
    IF end = 0
    THEN (IF start > Len(text) THEN <<>>
          ELSE ChopLastChar(Slice(text, start, Len(text))))
    ELSE Slice(text, start, end - 1)

\* lines 210-220: the text between the code fences, stripped
extract_json_str(text) ==
    IF Contains(text, <<Fence, JsonTag>>)
    THEN LET start == Find(text, <<Fence, JsonTag>>, 1) + 2
             end   == Find(text, <<Fence>>, start)
         IN  Strip(FenceSlice(text, start, end))
    ELSE IF Contains(text, <<Fence>>)
    THEN LET start == Find(text, <<Fence>>, 1) + 1
             end   == RFind(text, <<Fence>>)
         IN  Strip(FenceSlice(text, start, end))
    ELSE Strip(text)

\* lines 223-224: a leading language marker line is removed
remove_language_marker(json_str) ==
    IF Len(json_str) >= 2 /\ json_str[1] = JsonTag /\ json_str[2] = Newline
    THEN Slice(json_str, 3, Len(json_str))
    ELSE json_str

\* the sentinel object of lines 229-232
error_sentinel(msg, response_text) ==
    Dict([key \in {"error", "raw_response"} |->
            IF key = "error"
            THEN Str(<<Lit("Invalid JSON response: "), Lit(msg)>>)
            ELSE response_text])

\* response_text is a Python value: Str(text), or None.  The membership test
\* of line 210 raises TypeError on None, which the except clause of line 228
\* does not catch; nor does it catch what json.loads raises besides
\* JSONDecodeError.
parse_json_response(response_text) ==
    IF response_text.t # "str" THEN Raised("TypeError")
    ELSE Bind(json_loads(remove_language_marker(
                             extract_json_str(response_text.s))),
              LAMBDA loaded :
                IF loaded.raised /\ loaded.exc = "JSONDecodeError"
                THEN Ok(error_sentinel(loaded.msg, response_text))
                ELSE IF loaded.raised THEN Raised(loaded.exc)
                ELSE Ok(loaded.v))

(***************************************************************************)
(* Binary64 arithmetic of the expression grade / 100.0 * 100 for an        *)
(* integer grade x >= 1: both roundings, computed with small integers.     *)
(* x / 100.0 is rounded to a 53 bit mantissa M; 100 * M differs from the   *)
(* scaled x by E, |E| <= 50; the product is then rounded to the nearest    *)
(* double, which is x or a neighbour of x.                                 *)
(***************************************************************************)
RECURSIVE Log2Floor(_)
Log2Floor(x) == IF x < 2 THEN 0 ELSE 1 + Log2Floor(x \div 2)

RECURSIVE Pow2(_)
Pow2(k) == IF k = 0 THEN 1 ELSE 2 * Pow2(k - 1)

RECURSIVE Pow2Mod(_, _)
Pow2Mod(k, m) == IF k = 0 THEN 1 % m ELSE (2 * Pow2Mod(k - 1, m)) % m

\* the number of units in the last place by which x / 100.0 * 100 misses x
ScaleRoundOff(x) ==
    LET p    == Log2Floor(x)
        s    == IF 16 * x >= 25 * Pow2(p) THEN 6 ELSE 7
        k    == 52 - p + s
        R200 == ((x % 200) * Pow2Mod(k, 200)) % 200
        R    == R200 % 100
        E    == IF R < 50 THEN 0 - R
                ELSE IF R > 50 THEN 100 - R
                ELSE IF (R200 \div 100) % 2 = 0 THEN 0 - 50 ELSE 50
        half == IF x = Pow2(p) /\ E < 0 THEN Pow2(s - 2) ELSE Pow2(s - 1)
        mag  == IF E < 0 THEN 0 - E ELSE E
    IN  IF mag > half THEN (IF E > 0 THEN 1 ELSE 0 - 1) ELSE 0

\* grade / 100.0 * 100 of line 107, for a truthy grade: a number (the scores
\* of the modelled objects are positive integers), a bool (True is 1), or
\* TypeError for any other value
scale_to_percentage(grade) ==
    CASE grade.t = "bool" -> Ok(Num(1))
      [] grade.t = "num"  -> Ok(NumOff(grade.n, ScaleRoundOff(grade.n)))
      [] OTHER -> Raised("TypeError")

(***************************************************************************)
(* PromptGenerator.  A prompt is a text; problem and code are texts, the   *)
(* model solution is None or Str(text).                                    *)
(***************************************************************************)
\* the optional section of generator.py lines 71-78 and 167-174
model_section(heading, model_solution) ==
    IF Truthy(model_solution)
    THEN <<Lit(heading), Fence>> \o model_solution.s \o <<Fence>>
    ELSE <<>>

generate_json_prompt(problem, student_code, model_solution) ==
    <<Lit("system_prompt"), Lit("## PROBLEM:")>> \o problem
        \o model_section("## REFERENCE SOLUTION:", model_solution)
        \o <<Lit("## STUDENT CODE:"), Fence>> \o student_code
        \o <<Fence, Lit("metrics"), Lit("## REQUIRED OUTPUT:"),
             Fence, JsonTag, Lit("schema"), Fence>>

generate_simple_prompt(problem, student_code) ==
    <<Lit("I want you to act as a programming teacher"), Lit("Problem: ")>>
        \o problem \o <<Lit("Student Code: ")>> \o student_code
        \o <<Lit("is_correct / hints instructions")>>

\* a comprehensive template that numbers the prompt by the requests sent
generate_comprehensive_prompt_numbered(problem, student_code, model_solution) ==
    <<Lit("system_prompt"), Digits(requests), Lit("## PROBLEM DESCRIPTION:")>>
        \o problem
        \o model_section("## MODEL SOLUTION:", model_solution)
        \o <<Lit("## STUDENT SUBMISSION:"), Fence>> \o student_code
        \o <<Fence, Lit("metrics"), Lit("## EVALUATION INSTRUCTIONS:"),
             Lit("**TOTAL: ___/100 points**")>>

generate_comprehensive_prompt(problem, student_code, model_solution) ==
    <<Lit("system_prompt"), Lit("## PROBLEM DESCRIPTION:")>> \o problem
        \o model_section("## MODEL SOLUTION:", model_solution)
        \o <<Lit("## STUDENT SUBMISSION:"), Fence>> \o student_code
        \o <<Fence, Lit("metrics"), Lit("## EVALUATION INSTRUCTIONS:"),
             Lit("**TOTAL: ___/100 points**")>>

\* prompt selection that sends an unrecognized format to the comprehensive
\* template
select_prompt_text_default(evaluation_type, problem, code, model_solution) ==
    CASE evaluation_type = "json" ->
            generate_json_prompt(problem, code, model_solution)
      [] evaluation_type = "simple" ->
            generate_simple_prompt(problem, code)
      [] OTHER ->
            generate_comprehensive_prompt(problem, code, model_solution)

\* lines 51-65 of grade_code: the prompt for the requested format
select_prompt(evaluation_type, problem, code, model_solution) ==
    CASE evaluation_type = "json" ->
            generate_json_prompt(problem, code, model_solution)
      [] evaluation_type = "simple" ->
            generate_simple_prompt(problem, code)
      [] evaluation_type = "comprehensive" ->
            generate_comprehensive_prompt(problem, code, model_solution)
      [] OTHER ->
            generate_json_prompt(problem, code, model_solution)

(***************************************************************************)
(* MultiModelClient.  A reply is what one requests.post call produces:     *)
(*   kind     "exception" (timeout, network error) or "http"               *)
(*   status   the HTTP status code                                         *)
(*   shape    of the body: "notjson", or the completion path the JSON      *)
(*            body holds: "choices", "content", "candidates", "nopath"     *)
(*   content  the value at that path: Str(text), or None                   *)
(*   elapsed  the time the call took                                       *)
(***************************************************************************)
Providers == {"openai", "anthropic", "gemini", "groq"}

\* where each provider's completion text sits in the response body
CompletionPath(provider) ==
    CASE provider \in {"openai", "groq"} -> "choices"
      [] provider = "anthropic" -> "content"
      [] provider = "gemini" -> "candidates"

ErrorPrefix(provider) ==
    CASE provider = "openai" -> "OpenAI API error: "
      [] provider = "anthropic" -> "Anthropic API error: "
      [] provider = "gemini" -> "Gemini API error: "
      [] provider = "groq" -> "Groq API error: "

\* response.text of an error reply
ErrorBody == Lit("<error body>")

\* str(e) of a transport exception
ExceptionText == Lit("<exception text>")

\* str(e) of the exception raised while reading the body of a 200 reply
BodyFaultText == Lit("<body fault>")

GradingResponse(success, raw_response, processing_time, error_message) ==
    [success |-> success, raw_response |-> raw_response,
     processing_time |-> processing_time, error_message |-> error_message]

\* the provider call with the error body left out of the message
call_provider_status_only(provider, reply) ==
    IF reply.status = 200
    THEN IF reply.shape = CompletionPath(provider)
         THEN Ok(GradingResponse(TRUE, reply.content, reply.elapsed, None))
         ELSE Raised(IF reply.shape = "notjson" THEN "JSONDecodeError"
                     ELSE "KeyError")
    ELSE Ok(GradingResponse(FALSE, Str(<<>>), reply.elapsed,
                Str(<<Lit(ErrorPrefix(provider)), Digits(reply.status)>>)))

\* _call_openai, _call_anthropic, _call_groq, _call_gemini: the part after
\* requests.post returned (lines 106-119, 132-145, 159-172, 190-204).  A body
\* that is not JSON or lacks the path raises out of the function.
call_provider(provider, reply) ==
    IF reply.status = 200
    THEN IF reply.shape = CompletionPath(provider)
         THEN Ok(GradingResponse(TRUE, reply.content, reply.elapsed, None))
         ELSE Raised(IF reply.shape = "notjson" THEN "JSONDecodeError"
                     ELSE "KeyError")
    ELSE Ok(GradingResponse(FALSE, Str(<<>>), reply.elapsed,
                Str(<<Lit(ErrorPrefix(provider)), Digits(reply.status),
                      Lit(" - "), ErrorBody>>)))

\* evaluate_code, lines 67-92: every exception becomes a failed response
evaluate_code(provider, reply) ==
    LET failure(text) ==
            GradingResponse(FALSE, Str(<<>>), reply.elapsed,
                Str(<<Lit("Error calling "), Lit(provider), Lit(" API: "),
                      text>>))
    IN  IF reply.kind = "exception" THEN failure(ExceptionText)
        ELSE Bind(call_provider(provider, reply), LAMBDA r :
                    IF r.raised THEN failure(BodyFaultText) ELSE r.v)

ConnectionText == Lit("Connection successful")

\* MultiModelClient.test_connection, lines 234-245.  The membership test of
\* line 239 raises TypeError when the completion is None.
test_connection(provider, reply) ==
    Bind(evaluate_code(provider, reply), LAMBDA response :
        IF response.success /\ response.raw_response.t # "str"
        THEN Raised("TypeError")
        ELSE IF response.success
                /\ Contains(response.raw_response.s, <<ConnectionText>>)
        THEN Ok(GradingResponse(TRUE, Str(<<Lit("Connection test passed")>>),
                                0, None))
        ELSE Ok(GradingResponse(FALSE, Str(<<>>), 0,
                    IF Truthy(response.error_message)
                    THEN response.error_message
                    ELSE Str(<<Lit("Connection test failed")>>))))

(***************************************************************************)
(* GradingEngine.                                                          *)
(***************************************************************************)
\* GradingResult with the grade and percentage fields defaulting to 0
GradingResultZeroDefaults(student_id, problem, code, success, given) ==
    Bind(given, LAMBDA args :
        LET default == [grade |-> Num(0), percentage |-> Num(0),
                        feedback |-> None, issues |-> None,
                        recommendations |-> None, strengths |-> None,
                        processing_time |-> 0, error_message |-> None]
            opt(f) == IF f \in DOMAIN args THEN args[f] ELSE default[f]
        IN  [student_id |-> student_id, problem |-> problem, code |-> code,
             success |-> success,
             grade |-> opt("grade"), percentage |-> opt("percentage"),
             feedback |-> opt("feedback"), issues |-> opt("issues"),
             recommendations |-> opt("recommendations"),
             strengths |-> opt("strengths"),
             processing_time |-> opt("processing_time"),
             error_message |-> opt("error_message")])

\* the dataclass GradingResult with its defaults (lines 14-29); given holds
\* the keyword arguments of the constructor call
GradingResult(student_id, problem, code, success, given) ==
    Bind(given, LAMBDA args :
        LET default == [grade |-> None, percentage |-> None,
                        feedback |-> None, issues |-> None,
                        recommendations |-> None, strengths |-> None,
                        processing_time |-> 0, error_message |-> None]
            opt(f) == IF f \in DOMAIN args THEN args[f] ELSE default[f]
        IN  [student_id |-> student_id, problem |-> problem, code |-> code,
             success |-> success,
             grade |-> opt("grade"), percentage |-> opt("percentage"),
             feedback |-> opt("feedback"), issues |-> opt("issues"),
             recommendations |-> opt("recommendations"),
             strengths |-> opt("strengths"),
             processing_time |-> opt("processing_time"),
             error_message |-> opt("error_message")])

\* key in v (Python's in): Ok(bool), or TypeError for a value that is no container
py_in(key, v) ==
    CASE v.t = "dict" -> Ok(key \in DOMAIN v.o)
      [] v.t = "list" ->
            Ok(\E i \in 1..Len(v.items) : v.items[i] = Str(<<Lit(key)>>))
      [] v.t = "str"  -> Ok(Contains(v.s, <<Lit(key)>>))
      [] OTHER -> Raised("TypeError")

\* v[key] for a string key
py_getitem(v, key) ==
    IF v.t = "dict" THEN Ok(v.o[key]) ELSE Raised("TypeError")

\* d.get(key) or default: a null or empty value gives way to the default too
dict_get_or_default(d, key, default) ==
    IF key \in DOMAIN d.o /\ Truthy(d.o[key]) THEN d.o[key] ELSE default

\* dict.get(key, default)
dict_get(d, key, default) == IF key \in DOMAIN d.o THEN d.o[key] ELSE default

\* str(v) as a text
py_str(v) ==
    CASE v.t = "str" -> v.s
      [] v.t = "num" /\ v.f = 0 /\ v.off = 0 /\ v.n >= 0 -> <<Digits(v.n)>>
      [] OTHER -> <<Json(v)>>

\* the error test applied only to objects that carry no total_score
parse_or_fail_unless_scored(student_id, problem, code, response) ==
    Bind(parse_json_response(response.raw_response), LAMBDA parsed :
        IF parsed.raised THEN [done |-> TRUE, res |-> Raised(parsed.exc)]
        ELSE IF parsed.v.t # "dict"
        THEN [done |-> TRUE, res |-> Raised("AttributeError")]
        ELSE IF "error" \in DOMAIN parsed.v.o
                /\ "total_score" \notin DOMAIN parsed.v.o
        THEN [done |-> TRUE,
              res |-> Ok(GradingResult(student_id, problem, code, FALSE,
                    [processing_time |-> response.processing_time,
                     error_message |->
                        Str(<<Lit("JSON parsing error: ")>>
                            \o py_str(parsed.v.o["error"]))]))]
        ELSE [done |-> FALSE, res |-> Ok(parsed.v)])

\* lines 93-103 and 131-141: the parsed object, or the failed result made
\* from its error key.  done says that the caller returns res as its result.
parse_or_fail(student_id, problem, code, response) ==
    Bind(parse_json_response(response.raw_response), LAMBDA parsed :
        IF parsed.raised THEN [done |-> TRUE, res |-> Raised(parsed.exc)]
        ELSE Bind(py_in("error", parsed.v), LAMBDA has :
            IF has.raised THEN [done |-> TRUE, res |-> Raised(has.exc)]
            ELSE IF has.v
            THEN Bind(py_getitem(parsed.v, "error"), LAMBDA msg :
                    IF msg.raised
                    THEN [done |-> TRUE, res |-> Raised(msg.exc)]
                    ELSE [done |-> TRUE,
                          res |-> Ok(GradingResult(student_id, problem, code,
                                FALSE,
                                [processing_time |-> response.processing_time,
                                 error_message |->
                                    Str(<<Lit("JSON parsing error: ")>>
                                        \o py_str(msg.v))]))])
            ELSE IF parsed.v.t # "dict"
            THEN [done |-> TRUE, res |-> Raised("AttributeError")]
            ELSE [done |-> FALSE, res |-> Ok(parsed.v)]))

\* GradingEngine._parse_json_result, lines 88-124
parse_json_result(student_id, problem, code, response) ==
    Bind(parse_or_fail(student_id, problem, code, response), LAMBDA p :
        IF p.done THEN p.res
        ELSE Bind(dict_get(p.res.v, "total_score", Num(0)), LAMBDA grade :
             Bind(IF Truthy(grade) THEN scale_to_percentage(grade)
                  ELSE Ok(Num(0)),
                  LAMBDA fallback :
                IF fallback.raised THEN Raised(fallback.exc)
                ELSE Ok(GradingResult(student_id, problem, code, TRUE,
                        [grade |-> grade,
                         percentage |->
                            dict_get(p.res.v, "percentage", fallback.v),
                         feedback |-> p.res.v,
                         issues |-> dict_get(p.res.v, "issues", List(<<>>)),
                         recommendations |->
                            dict_get(p.res.v, "recommendations", List(<<>>)),
                         strengths |->
                            dict_get(p.res.v, "strengths", List(<<>>)),
                         processing_time |-> response.processing_time])))))

\* the heuristic with the two grades of an incorrect answer exchanged
simple_grade_swapped(is_correct, hints) ==
    IF Truthy(is_correct) THEN Num(100)
    ELSE IF ~Truthy(hints) THEN Num(25)
    ELSE Num(50)

\* the grade of line 147
simple_grade(is_correct, hints) ==
    IF Truthy(is_correct) THEN Num(100)
    ELSE IF ~Truthy(hints) THEN Num(50)
    ELSE Num(25)

\* GradingEngine._parse_simple_result, lines 126-159
parse_simple_result(student_id, problem, code, response) ==
    Bind(parse_or_fail(student_id, problem, code, response), LAMBDA p :
        IF p.done THEN p.res
        ELSE Bind(dict_get(p.res.v, "hints", List(<<>>)), LAMBDA hints :
             Bind(simple_grade(dict_get(p.res.v, "is_correct", Bool(FALSE)),
                               hints),
                  LAMBDA grade :
                Ok(GradingResult(student_id, problem, code, TRUE,
                        [grade |-> grade, percentage |-> grade,
                         feedback |-> p.res.v, issues |-> hints,
                         processing_time |-> response.processing_time])))))

(***************************************************************************)
(* GradingEngine._parse_text_result: the regular expressions, on tokens.   *)
(***************************************************************************)
\* the pattern list in the opposite order
score_patterns_reversed ==
    <<Lit("Grade:"), Lit("Score:"), Lit("Total:"), Lit("TOTAL:")>>

\* the labels of the four patterns "<label>\s*(\d+)/100", in list order
\* (lines 173-178)
score_patterns == <<Lit("TOTAL:"), Lit("Total:"), Lit("Score:"), Lit("Grade:")>>

\* the first position >= i of text that holds no whitespace
RECURSIVE SkipWhitespace(_, _)
SkipWhitespace(text, i) ==
    IF i <= Len(text) /\ IsWhitespace(text[i])
    THEN SkipWhitespace(text, i + 1)
    ELSE i

\* the pattern of label matches text starting at position i
ScoreMatchAt(label, text, i) ==
    LET j == SkipWhitespace(text, i + 1)
    IN  /\ At(text, i) = label
        /\ IsDigits(At(text, j))
        /\ At(text, j + 1) = Slash
        /\ IsDigits(At(text, j + 2))
        /\ StartsWith100(At(text, j + 2).n)

\* re.search(pattern, text): the position of the leftmost match, 0 for None
score_search(label, text) ==
    LET hits == {i \in 1..Len(text) : ScoreMatchAt(label, text, i)}
    IN  IF hits = {} THEN 0 ELSE CHOOSE i \in hits : \A h \in hits : i <= h

\* float(match.group(1)) of the match at position i
score_group(text, i) == Num(text[SkipWhitespace(text, i + 1)].n)

\* the loop of lines 180-184 from pattern number k on: the grade of the
\* first pattern that matches, None when none does
RECURSIVE first_pattern_grade(_, _, _)
first_pattern_grade(patterns, text, k) ==
    IF k > Len(patterns) THEN None
    ELSE LET i == score_search(patterns[k], text)
         IN  IF i # 0 THEN score_group(text, i)
             ELSE first_pattern_grade(patterns, text, k + 1)

\* the pattern (\d+\.?\d*)% matches text starting at the digit run at i
PercentMatchAt(text, i) ==
    /\ IsDigits(At(text, i))
    /\ \/ At(text, i + 1) = Percent
       \/ At(text, i + 1) = Dot /\ At(text, i + 2) = Percent
       \/ At(text, i + 1) = Dot /\ IsDigits(At(text, i + 2))
            /\ At(text, i + 3) = Percent

\* lines 188-190: float of the first "%"-suffixed number, None without one
percentage_search(text) ==
    LET hits == {i \in 1..Len(text) : PercentMatchAt(text, i)}
    IN  IF hits = {} THEN None
        ELSE LET i == CHOOSE x \in hits : \A h \in hits : x <= h
             IN  IF At(text, i + 1) = Dot /\ IsDigits(At(text, i + 2))
                 THEN NumFrac(text[i].n, text[i + 2].n)
                 ELSE Num(text[i].n)

\* _parse_text_result that treats a text without any score as a failure
parse_text_result_miss_fails(student_id, problem, code, response) ==
    IF response.raw_response.t # "str" THEN Raised("TypeError")
    ELSE Bind(response.raw_response.s, LAMBDA text :
         Bind(first_pattern_grade(score_patterns, text, 1), LAMBDA matched :
         Bind(IF matched = None THEN percentage_search(text) ELSE matched,
              LAMBDA grade :
            IF grade = None
            THEN Ok(GradingResult(student_id, problem, code, FALSE,
                    [processing_time |-> response.processing_time,
                     error_message |-> Str(<<Lit("No score found")>>)]))
            ELSE Ok(GradingResult(student_id, problem, code, TRUE,
                    [grade |-> grade, percentage |-> grade,
                     feedback |-> Dict([key \in {"raw_text"} |->
                                            response.raw_response]),
                     processing_time |-> response.processing_time])))))

\* GradingEngine._parse_text_result, lines 161-203.  re.search raises
\* TypeError when the raw response is None.
parse_text_result(student_id, problem, code, response) ==
    IF response.raw_response.t # "str" THEN Raised("TypeError")
    ELSE Bind(response.raw_response.s, LAMBDA text :
         Bind(first_pattern_grade(score_patterns, text, 1), LAMBDA matched :
         Bind(IF matched = None THEN percentage_search(text) ELSE matched,
              LAMBDA grade :
            Ok(GradingResult(student_id, problem, code, TRUE,
                    [grade |-> grade,
                     percentage |-> IF grade # None THEN grade ELSE Num(0),
                     feedback |-> Dict([key \in {"raw_text"} |->
                                            response.raw_response]),
                     processing_time |-> response.processing_time])))))

\* the failed result with a fixed message in place of the client's
client_failure_result_generic(student_id, problem, code, response) ==
    GradingResult(student_id, problem, code, FALSE,
        [processing_time |-> 0,
         error_message |-> Str(<<Lit("Grading failed")>>)])

\* the failed result of lines 70-78
client_failure_result(student_id, problem, code, response) ==
    GradingResult(student_id, problem, code, FALSE,
        [processing_time |-> response.processing_time,
         error_message |-> response.error_message])

\* lines 80-86 of grade_code: the parser for the requested format
parse_by_format(evaluation_type, student_id, problem, code, response) ==
    CASE evaluation_type = "json" ->
            parse_json_result(student_id, problem, code, response)
      [] evaluation_type = "simple" ->
            parse_simple_result(student_id, problem, code, response)
      [] OTHER ->
            parse_text_result(student_id, problem, code, response)

\* the name of the parser parse_by_format enters
parser_of(evaluation_type) ==
    CASE evaluation_type = "json" -> "parse_json"
      [] evaluation_type = "simple" -> "parse_simple"
      [] OTHER -> "parse_text"

\* the name of the template select_prompt uses
template_of(evaluation_type) ==
    CASE evaluation_type = "json" -> "json"
      [] evaluation_type = "simple" -> "simple"
      [] evaluation_type = "comprehensive" -> "comprehensive"
      [] OTHER -> "json"

\* GradingEngine.grade_code, lines 67-86, once the prompt is built: the
\* outcome for the reply the provider gave
grade_code(provider, evaluation_type, sub, reply) ==
    Bind(evaluate_code(provider, reply), LAMBDA response :
        IF ~response.success
        THEN Ok(client_failure_result(sub.student_id, sub.problem, sub.code,
                                      response))
        ELSE parse_by_format(evaluation_type, sub.student_id, sub.problem,
                             sub.code, response))

(***************************************************************************)
(* CodeGrader (the facade).                                                *)
(***************************************************************************)
\* x or [] of lines 105-107
or_empty(x) == IF Truthy(x) THEN x ELSE List(<<>>)

\* CodeGrader._format_result, lines 96-110
format_result(result) ==
    [student_id |-> result.student_id, success |-> result.success,
     grade |-> result.grade, percentage |-> result.percentage,
     feedback |-> result.feedback, issues |-> or_empty(result.issues),
     recommendations |-> or_empty(result.recommendations),
     strengths |-> or_empty(result.strengths),
     processing_time |-> result.processing_time,
     error |-> result.error_message]

\* the value a facade call hands to its caller for an engine outcome
facade_outcome(outcome) ==
    IF outcome.raised THEN outcome ELSE Ok(format_result(outcome.v))

\* CodeGrader.get_prompt_only, lines 112-148
get_prompt_only(format, problem, student_code, model_solution) ==
    CASE format = "json" ->
            generate_json_prompt(problem, student_code, model_solution)
      [] format = "simple" ->
            generate_simple_prompt(problem, student_code)
      [] format = "comprehensive" ->
            generate_comprehensive_prompt(problem, student_code,
                                          model_solution)
      [] OTHER ->
            generate_json_prompt(problem, student_code, model_solution)

(***************************************************************************)
(* Inputs: formats, submissions, replies and response texts.               *)
(***************************************************************************)
\* "detailed" stands for every value that is none of the three formats
Formats == {"json", "simple", "comprehensive", "detailed"}

\* a submission record of a batch; student_id and model_solution may be absent
Submissions ==
    { [student_id |-> "s1", problem |-> <<Lit("P1")>>, code |-> <<Lit("C1")>>],
      [student_id |-> "s2", problem |-> <<Lit("P2")>>,
       code |-> <<Lit("C2"), Fence>>, model_solution |-> Str(<<Lit("M2")>>)],
      [problem |-> <<Lit("P3")>>, code |-> <<Lit("C3")>>] }

\* the submission as grade_code receives it from grade_batch, lines 217-223
batch_arguments(submission) ==
    [student_id |-> IF "student_id" \in DOMAIN submission
                    THEN submission.student_id ELSE "unknown",
     problem |-> submission.problem,
     code |-> submission.code,
     model_solution |-> IF "model_solution" \in DOMAIN submission
                        THEN submission.model_solution ELSE None]

HttpReply(status, shape, content, elapsed) ==
    [kind |-> "http", status |-> status, shape |-> shape,
     content |-> content, elapsed |-> elapsed]

ExceptionReply(elapsed) ==
    [kind |-> "exception", status |-> 0, shape |-> "notjson",
     content |-> None, elapsed |-> elapsed]

\* a 200 reply that carries the completion text where provider looks for it
TextReply(provider, text, elapsed) ==
    HttpReply(200, CompletionPath(provider), Str(text), elapsed)

\* the replies that differ in how the request went, each with a fixed text
TransportReplies ==
    UNION {
        {ExceptionReply(e)}
        \cup {HttpReply(st, "notjson", None, e) : st \in {201, 404, 500}}
        \cup {HttpReply(200, sh, Str(<<Word>>), e) :
                sh \in {"choices", "content", "candidates", "nopath",
                        "notjson"}}
        \cup {HttpReply(200, sh, None, e) :
                sh \in {"choices", "content", "candidates"}}
        : e \in 1..MaxElapsed }

\* all sequences of at most n members of S, concatenated
RECURSIVE Concatenations(_, _)
Concatenations(S, n) ==
    IF n = 0 THEN {<<>>}
    ELSE LET shorter == Concatenations(S, n - 1)
         IN  shorter \cup {t \o seg : t \in shorter, seg \in S}

ScoreLine(label, n) == <<label, Space, Digits(n), Slash, Digits(100)>>

\* the pieces the texts for the text scanner are concatenated from
ScanSegments ==
    {ScoreLine(score_patterns[k], n) : k \in 1..4, n \in {87, 90}}
    \cup { <<Lit("TOTAL:"), Digits(90), Slash, Digits(100)>>,
           <<Lit("Score:"), Space, Digits(250), Slash, Digits(100)>>,
           <<Lit("Grade:"), Newline, Digits(4), Slash, Digits(1000)>>,
           <<Lit("TOTAL:"), Space, Digits(87)>>,
           <<Lit("TOTAL:"), Space, Digits(87), Slash, Digits(250)>>,
           <<Digits(42), Percent>>,
           <<Digits(4), Dot, Digits(250), Percent>>,
           <<Digits(4), Dot, Percent>>,
           <<Percent>>, <<Word>>, <<Newline>> }

ScanTexts == {t \in Concatenations(ScanSegments, MaxSegs) : NormalForm(t)}

\* the objects a model may answer with in json format
JsonObjects ==
    LET scores == {Num(82), Num(0), Num(7), Num(250), None,
                   Str(<<Lit("A")>>)}
        pcts   == {Num(82), None}
        lists  == {List(<<Str(<<Lit("x")>>)>>), None,
                   Dict([key \in {"line"} |-> Num(3)])}
        keys(withScore, withPct, withErr, withLists) ==
            (IF withScore THEN {"total_score"} ELSE {})
            \cup (IF withPct THEN {"percentage"} ELSE {})
            \cup (IF withErr THEN {"error"} ELSE {})
            \cup (IF withLists
                  THEN {"issues", "recommendations", "strengths"} ELSE {})
    IN  { Dict([key \in keys(ws, wp, we, wl) |->
                    CASE key = "total_score" -> sc
                      [] key = "percentage" -> pc0
                      [] key = "error" -> Str(<<Lit("none")>>)
                      [] OTHER -> ls]) :
            ws \in BOOLEAN, wp \in BOOLEAN, we \in BOOLEAN, wl \in BOOLEAN,
            sc \in scores, pc0 \in pcts, ls \in lists }

\* the objects a model may answer with in simple format
SimpleObjects ==
    LET hintses == {List(<<>>), List(<<Str(<<Lit("hint")>>)>>)}
        keys(wc, wh, we) ==
            (IF wc THEN {"is_correct"} ELSE {})
            \cup (IF wh THEN {"hints"} ELSE {})
            \cup (IF we THEN {"error"} ELSE {})
    IN  { Dict([key \in keys(wc, wh, we) |->
                    CASE key = "is_correct" -> Bool(c)
                      [] key = "hints" -> h
                      [] OTHER -> Str(<<Lit("none")>>)]) :
            wc \in BOOLEAN, wh \in BOOLEAN, we \in BOOLEAN,
            c \in BOOLEAN, h \in hintses }

\* JSON texts that are no object
NonObjectTexts ==
    { <<Json(List(<<>>))>>, <<Json(List(<<Str(<<Lit("error")>>)>>))>>,
      <<Json(None)>>, <<Json(Bool(TRUE))>>,
      <<Digits(42)>>, <<Digits(4), Dot, Digits(2)>>, <<Digits(4), Dot>>,
      <<StrOpen, StrClose>>, <<StrOpen, Fence, StrClose>>,
      <<StrOpen, Lit("error"), StrClose>>, <<StrOpen, Word>> }

\* the score a rubric totals to: the 100 of line 107 and of the "/100" patterns
FullScore == 100

\* the objects that give nothing but an integer total_score within the rubric
ScoreObjects ==
    {Dict([key \in {"total_score"} |-> Num(n)]) : n \in 0..FullScore}

PayloadTexts ==
    {<<Json(o)>> : o \in JsonObjects \cup SimpleObjects \cup ScoreObjects}
    \cup NonObjectTexts \cup {<<DeepNesting>>}

\* the tokens the fenced texts are made of
FenceAlphabet ==
    {Fence, JsonTag, Newline, Word,
     Json(Dict([key \in {"total_score"} |-> Num(82)]))}

FenceTexts ==
    UNION {[1..n -> FenceAlphabet] : n \in 0..MaxFenceLen}

Texts == ScanTexts \cup PayloadTexts \cup FenceTexts

(***************************************************************************)
(* State.                                                                  *)
(***************************************************************************)
\* a field of a call that has no value yet
Pending == [t |-> "pending"]

NoCall ==
    [fmt |-> "", sub |-> Pending, prompt |-> <<>>, reply |-> Pending,
     response |-> Pending, outcome |-> Pending, returned |-> Pending]

\* a grade_code call that has built its prompt (lines 51-65)
NewCall(fmt, args) ==
    [fmt |-> fmt, sub |-> args,
     prompt |-> select_prompt(fmt, args.problem, args.code,
                              args.model_solution),
     reply |-> Pending, response |-> Pending, outcome |-> Pending,
     returned |-> Pending]

NoBatch ==
    [status |-> "idle", fmt |-> "", subs |-> <<>>, results |-> <<>>,
     returned |-> <<>>, first_request |-> 0]

\* the last phase of a call: the parser entered, or the failure branch
last_phase(fmt, response) ==
    IF response.success THEN parser_of(fmt) ELSE "failure"

(***************************************************************************)
(* ParseSpec: grade_code as a function of its inputs.  The initial states  *)
(* draw the provider, the format, the submission and the reply the         *)
(* provider gives; the one action runs the whole call through the facade.  *)
(***************************************************************************)
ParseInputs ==
    {[provider |-> p, fmt |-> f, reply |-> r] :
        p \in Providers, f \in Formats, r \in TransportReplies}
    \cup {[provider |-> "openai", fmt |-> f,
           reply |-> TextReply("openai", t, e)] :
            f \in Formats, t \in Texts, e \in 1..MaxElapsed}

ParseInit ==
    \E input \in ParseInputs :
        /\ facade = [state |-> "ready", provider |-> input.provider,
                     error |-> "",
                     check |-> evaluate_code(input.provider,
                                  TextReply(input.provider,
                                            <<ConnectionText>>, 1))]
        /\ requests = 0
        /\ pc = "called"
        /\ call = [NewCall(input.fmt,
                           batch_arguments(CHOOSE sub \in Submissions :
                                               sub.problem = <<Lit("P1")>>))
                   EXCEPT !.reply = input.reply]
        /\ trace = <<"template_selected">>
        /\ batch = NoBatch

\* CodeGrader.grade_code (lines 69-77) around GradingEngine.grade_code
ApplyGradeCode ==
    /\ pc = "called"
    /\ \E response \in {evaluate_code(facade.provider, call.reply)} :
       \E outcome \in {grade_code(facade.provider, call.fmt, call.sub,
                                  call.reply)} :
           /\ call' = [call EXCEPT !.response = response,
                                   !.outcome = outcome,
                                   !.returned = facade_outcome(outcome)]
           /\ pc' = IF outcome.raised THEN "raised" ELSE "returned"
           /\ trace' = trace \o <<"request_sent",
                                  last_phase(call.fmt, response)>>
    /\ requests' = requests + 1
    /\ UNCHANGED <<facade, batch>>

ParseNext == ApplyGradeCode

ParseSpec == ParseInit /\ [][ParseNext]_vars

(***************************************************************************)
(* Spec: the facade's life.  The facade is constructed (one connectivity   *)
(* request), then serves grade_code and grade_multiple calls one at a      *)
(* time.  A call walks through the phases of GradingEngine.grade_code:     *)
(* template selected, request sent, then the failure branch or the parser  *)
(* of the format.                                                          *)
(***************************************************************************)
\* provider.lower() of grading_client.py line 34
Lower(name) == IF name = "OpenAI" THEN "openai" ELSE name

ProviderNames == Providers \cup {"OpenAI", "ftp"}

\* the replies a connectivity check may get
ConnectionReplies(provider) ==
    { ExceptionReply(1), HttpReply(500, "notjson", None, 1),
      TextReply(provider, <<ConnectionText>>, 1),
      TextReply(provider, <<Word, ConnectionText, Word>>, 1),
      TextReply(provider, <<Word>>, 1),
      HttpReply(200, CompletionPath(provider), None, 1) }

\* the response texts of the calls of Spec
ProtocolTexts ==
    { <<Json(Dict([key \in {"total_score"} |-> Num(82)]))>>,
      <<Word>>,
      <<Json(List(<<>>))>>,
      ScoreLine(Lit("Score:"), 87) }

\* the replies a grading request of Spec may get
ProtocolReplies(provider) ==
    {ExceptionReply(1), HttpReply(500, "notjson", None, MaxElapsed)}
    \cup {TextReply(provider, t, 1) : t \in ProtocolTexts}

\* the arguments of CodeGrader.grade_code with its defaults (lines 47-54)
facade_arguments(submission) ==
    [student_id |-> IF "student_id" \in DOMAIN submission
                    THEN submission.student_id ELSE "student",
     problem |-> submission.problem,
     code |-> submission.code,
     model_solution |-> IF "model_solution" \in DOMAIN submission
                        THEN submission.model_solution ELSE None]

Init ==
    /\ facade = [state |-> "absent", provider |-> "", error |-> "",
                 check |-> Pending]
    /\ requests = 0
    /\ pc = "idle"
    /\ call = NoCall
    /\ trace = <<>>
    /\ batch = NoBatch

\* CodeGrader.__init__ (grader.py lines 18-45): the client is configured
\* (ValueError for an unsupported provider) and the connection is tested
Construct(name, reply) ==
    /\ facade.state = "absent"
    /\ IF Lower(name) \notin Providers
       THEN /\ facade' = [state |-> "failed", provider |-> Lower(name),
                          error |-> "ValueError", check |-> Pending]
            /\ requests' = requests
       ELSE \E response \in {evaluate_code(Lower(name), reply)} :
            \E checked \in {test_connection(Lower(name), reply)} :
                /\ requests' = requests + 1
                /\ facade' =
                     IF checked.raised
                     THEN [state |-> "failed", provider |-> Lower(name),
                           error |-> checked.exc, check |-> response]
                     ELSE IF checked.v.success
                     THEN [state |-> "ready", provider |-> Lower(name),
                           error |-> "", check |-> response]
                     ELSE [state |-> "failed", provider |-> Lower(name),
                           error |-> "ConnectionError", check |-> response]
    /\ UNCHANGED <<pc, call, trace, batch>>

\* no call is in progress
Idle == pc \in {"idle", "returned", "raised"} /\ batch.status # "running"

\* CodeGrader.grade_code is called; GradingEngine.grade_code builds the prompt
StartCall(fmt, submission) ==
    /\ facade.state = "ready"
    /\ Idle
    /\ requests < MaxRequests
    /\ call' = NewCall(fmt, facade_arguments(submission))
    /\ pc' = "template_selected"
    /\ trace' = <<"template_selected">>
    /\ batch' = NoBatch
    /\ UNCHANGED <<facade, requests>>

\* line 68: the one request of the call, and the reply to it
SendRequest ==
    /\ pc = "template_selected"
    /\ \E reply \in ProtocolReplies(facade.provider) :
        /\ call' = [call EXCEPT !.reply = reply,
                                !.response = evaluate_code(facade.provider,
                                                           reply)]
    /\ requests' = requests + 1
    /\ pc' = "request_sent"
    /\ trace' = Append(trace, "request_sent")
    /\ UNCHANGED <<facade, batch>>

\* grade_batch lines 217-226 and grade_multiple line 94 after the current
\* item ended with outcome: the result is collected, the batch returns after
\* its last item, and an exception leaves the batch
Collect(outcome) ==
    IF batch.status # "running" THEN batch
    ELSE IF outcome.raised THEN [batch EXCEPT !.status = "raised"]
    ELSE LET results == Append(batch.results, outcome.v)
         IN  IF Len(results) < Len(batch.subs)
             THEN [batch EXCEPT !.results = results]
             ELSE [batch EXCEPT !.results = results,
                                !.status = "returned",
                                !.returned = [i \in 1..Len(results) |->
                                                format_result(results[i])]]

\* the call ends with outcome after entering phase
Finish(outcome, phase) ==
    /\ call' = [call EXCEPT !.outcome = outcome,
                            !.returned = facade_outcome(outcome)]
    /\ pc' = IF outcome.raised THEN "raised" ELSE "returned"
    /\ trace' = Append(trace, phase)
    /\ batch' = Collect(outcome)
    /\ UNCHANGED <<facade, requests>>

\* lines 70-78: the client reported failure
FailCall ==
    /\ pc = "request_sent"
    /\ ~call.response.success
    /\ \E outcome \in {Ok(client_failure_result(call.sub.student_id,
                            call.sub.problem, call.sub.code, call.response))} :
            Finish(outcome, "failure")

\* lines 80-86: the response is parsed by format
ParseResponse ==
    /\ pc = "request_sent"
    /\ call.response.success
    /\ \E outcome \in {parse_by_format(call.fmt, call.sub.student_id,
                            call.sub.problem, call.sub.code, call.response)} :
            Finish(outcome, parser_of(call.fmt))

\* CodeGrader.grade_multiple / GradingEngine.grade_batch is called
StartBatch(fmt, subs) ==
    /\ facade.state = "ready"
    /\ Idle
    /\ requests + Len(subs) <= MaxRequests
    /\ batch' = [status |-> IF subs = <<>> THEN "returned" ELSE "running",
                 fmt |-> fmt, subs |-> subs, results |-> <<>>,
                 returned |-> <<>>, first_request |-> requests]
    /\ call' = NoCall
    /\ pc' = "idle"
    /\ trace' = <<>>
    /\ UNCHANGED <<facade, requests>>

\* the loop of grade_batch reaches its next submission (lines 216-223)
NextItem ==
    /\ batch.status = "running"
    /\ pc \in {"idle", "returned"}
    /\ call' = NewCall(batch.fmt,
                       batch_arguments(batch.subs[Len(batch.results) + 1]))
    /\ pc' = "template_selected"
    /\ trace' = <<"template_selected">>
    /\ UNCHANGED <<facade, requests, batch>>

Batches == UNION {[1..n -> Submissions] : n \in 0..MaxBatch}

Next ==
    \/ \E name \in ProviderNames :
         \E reply \in ConnectionReplies(IF Lower(name) \in Providers
                                        THEN Lower(name) ELSE "openai") :
            Construct(name, reply)
    \/ \E fmt \in Formats, submission \in Submissions :
            StartCall(fmt, submission)
    \/ SendRequest
    \/ FailCall
    \/ ParseResponse
    \/ \E fmt \in Formats, subs \in Batches : StartBatch(fmt, subs)
    \/ NextItem

Spec == Init /\ [][Next]_vars

(***************************************************************************)
(* ExtractSpec: parse_json_response as a function of the response text.    *)
(* The initial states draw the text; the three actions apply the function  *)
(* to the text as it is, to the text inside a json-tagged fence and to the *)
(* text inside a plain fence.                                              *)
(***************************************************************************)
\* text inside a fence that carries the json language tag
JsonFenced(text) == <<Fence, JsonTag, Newline>> \o text \o <<Newline, Fence>>

\* text inside a fence without a language tag
PlainFenced(text) == <<Fence, Newline>> \o text \o <<Newline, Fence>>

ExtractInit ==
    \E text \in Texts :
        /\ facade = [state |-> "absent", provider |-> "", error |-> "",
                     check |-> Pending]
        /\ requests = 0
        /\ pc = "extract"
        /\ call = [text |-> Str(text), bare |-> Pending,
                   json_fenced |-> Pending, plain_fenced |-> Pending]
        /\ trace = <<>>
        /\ batch = NoBatch

ExtractBare ==
    /\ pc = "extract"
    /\ call.bare = Pending
    /\ call' = [call EXCEPT !.bare = parse_json_response(call.text)]
    /\ UNCHANGED <<facade, requests, pc, trace, batch>>

ExtractJsonFenced ==
    /\ pc = "extract"
    /\ call.json_fenced = Pending
    /\ call' = [call EXCEPT !.json_fenced =
                    parse_json_response(Str(JsonFenced(call.text.s)))]
    /\ UNCHANGED <<facade, requests, pc, trace, batch>>

ExtractPlainFenced ==
    /\ pc = "extract"
    /\ call.plain_fenced = Pending
    /\ call' = [call EXCEPT !.plain_fenced =
                    parse_json_response(Str(PlainFenced(call.text.s)))]
    /\ UNCHANGED <<facade, requests, pc, trace, batch>>

ExtractNext == ExtractBare \/ ExtractJsonFenced \/ ExtractPlainFenced

ExtractSpec == ExtractInit /\ [][ExtractNext]_vars

(***************************************************************************)
(* PromptSpec: the prompts of one facade.  Prompts are generated by the    *)
(* three PromptGenerator methods, by CodeGrader.get_prompt_only and by     *)
(* grading calls, in any order; trace keeps every generated prompt with    *)
(* the template and the inputs it was generated from.                      *)
(***************************************************************************)
\* (problem, code, reference) inputs: texts with surrounding whitespace,
\* fences and braces, an absent and an empty reference
PromptInputs ==
    { [problem |-> <<Lit("P1")>>, code |-> <<Lit("C1")>>,
       model_solution |-> None],
      [problem |-> <<Lit("P1")>>, code |-> <<Lit("C1")>>,
       model_solution |-> Str(<<Lit("M1"), Newline>>)],
      [problem |-> <<Newline, Lit("{P2}"), Fence, Space>>,
       code |-> <<Space, Lit("C2"), Fence, JsonTag, Newline>>,
       model_solution |-> Str(<<>>)] }

\* one generated prompt, with what it was generated from
PromptRecord(template, input, text) ==
    [template |-> template, problem |-> input.problem, code |-> input.code,
     model_solution |-> input.model_solution, text |-> text]

PromptInit ==
    /\ facade = [state |-> "ready", provider |-> "openai", error |-> "",
                 check |-> evaluate_code("openai",
                              TextReply("openai", <<ConnectionText>>, 1))]
    /\ requests = 0
    /\ pc = "idle"
    /\ call = NoCall
    /\ trace = <<>>
    /\ batch = NoBatch

\* PromptGenerator.generate_json_prompt is called
GenerateJsonPrompt(input) ==
    /\ Len(trace) < MaxPrompts
    /\ trace' = Append(trace, PromptRecord("json", input,
                    generate_json_prompt(input.problem, input.code,
                                         input.model_solution)))
    /\ pc' = "generated"
    /\ UNCHANGED <<facade, requests, call, batch>>

\* PromptGenerator.generate_simple_prompt is called
GenerateSimplePrompt(input) ==
    /\ Len(trace) < MaxPrompts
    /\ trace' = Append(trace, PromptRecord("simple", input,
                    generate_simple_prompt(input.problem, input.code)))
    /\ pc' = "generated"
    /\ UNCHANGED <<facade, requests, call, batch>>

\* PromptGenerator.generate_comprehensive_prompt is called
GenerateComprehensivePrompt(input) ==
    /\ Len(trace) < MaxPrompts
    /\ trace' = Append(trace, PromptRecord("comprehensive", input,
                    generate_comprehensive_prompt(input.problem, input.code,
                                                  input.model_solution)))
    /\ pc' = "generated"
    /\ UNCHANGED <<facade, requests, call, batch>>

\* CodeGrader.get_prompt_only is called
PromptOnly(format, input) ==
    /\ Len(trace) < MaxPrompts
    /\ trace' = Append(trace, PromptRecord(template_of(format), input,
                    get_prompt_only(format, input.problem, input.code,
                                    input.model_solution)))
    /\ pc' = "prompt_only"
    /\ UNCHANGED <<facade, requests, call, batch>>

\* CodeGrader.grade_code is called and runs to its end: the prompt is built,
\* the request is sent and the reply is parsed
GradeWithPrompt(fmt, input, reply) ==
    /\ Len(trace) < MaxPrompts
    /\ \E args \in {[student_id |-> "student", problem |-> input.problem,
                     code |-> input.code,
                     model_solution |-> input.model_solution]} :
       \E started \in {NewCall(fmt, args)} :
       \E outcome \in {grade_code(facade.provider, fmt, args, reply)} :
           /\ call' = [started EXCEPT
                          !.reply = reply,
                          !.response = evaluate_code(facade.provider, reply),
                          !.outcome = outcome,
                          !.returned = facade_outcome(outcome)]
           /\ trace' = Append(trace, PromptRecord(template_of(fmt), input,
                                                  started.prompt))
           /\ pc' = IF outcome.raised THEN "raised" ELSE "returned"
    /\ requests' = requests + 1
    /\ UNCHANGED <<facade, batch>>

\* the reply the grading calls of PromptSpec get
PromptReplies == {TextReply("openai", ScoreLine(Lit("Score:"), 87), 1)}

PromptNext ==
    \/ \E input \in PromptInputs : GenerateJsonPrompt(input)
    \/ \E input \in PromptInputs : GenerateSimplePrompt(input)
    \/ \E input \in PromptInputs : GenerateComprehensivePrompt(input)
    \/ \E format \in Formats, input \in PromptInputs :
            PromptOnly(format, input)
    \/ \E fmt \in Formats, input \in PromptInputs, reply \in PromptReplies :
            GradeWithPrompt(fmt, input, reply)

PromptSpec == PromptInit /\ [][PromptNext]_vars

(***************************************************************************)
(* Properties.                                                             *)
(***************************************************************************)
\* the current grade_code call has ended, by returning or by raising
CallEnded == pc \in {"returned", "raised"}

\* the client answered the current call with a successful response that
\* carries a text
TextResponse ==
    /\ CallEnded
    /\ call.response.success
    /\ call.response.raw_response.t = "str"

\* the prefix _parse_json_result and _parse_simple_result put before a
\* parsing error (lines 102 and 140)
ParsingErrorPrefix == Lit("JSON parsing error: ")

\* message is a text that starts with the parsing-error prefix
HasParsingErrorPrefix(message) ==
    /\ message.t = "str"
    /\ message.s # <<>>
    /\ message.s[1] = ParsingErrorPrefix

\* what json.loads makes of the response text once the fences are removed
Decoded(raw_response) ==
    json_loads(remove_language_marker(extract_json_str(raw_response.s)))

\* the labels of the score patterns that match somewhere in text
MatchingLabels(labels, text) ==
    {k \in 1..Len(labels) : score_search(labels[k], text) # 0}

\* C1: for every response and every format, grade_code (engine and facade)
\* returns a result and never raises.
C1_GradeCodeNeverRaises ==
    pc # "called" =>
        /\ pc = "returned"
        /\ ~call.outcome.raised
        /\ ~call.returned.raised

\* C2: every result grade_code returns with success = false has grade,
\* percentage and feedback None and a non-empty error message, in the
\* engine's result and in the facade's.
C2_FailedResultCarriesOnlyError ==
    (pc = "returned" /\ ~call.outcome.v.success) =>
        /\ call.outcome.v.grade = None
        /\ call.outcome.v.percentage = None
        /\ call.outcome.v.feedback = None
        /\ call.outcome.v.error_message.t = "str"
        /\ call.outcome.v.error_message.s # <<>>
        /\ call.returned.v.grade = None
        /\ call.returned.v.percentage = None
        /\ call.returned.v.feedback = None
        /\ call.returned.v.error = call.outcome.v.error_message

\* a simple-format call that failed on a text that is no JSON
C2_Witness ==
    /\ pc = "returned"
    /\ call.fmt = "simple"
    /\ call.response.success
    /\ call.response.raw_response = Str(<<Word>>)
    /\ ~call.outcome.v.success
    /\ HasParsingErrorPrefix(call.outcome.v.error_message)

\* C3 as stated: every result grade_code returns with success = true has
\* grade and percentage present (not None).
C3_SuccessHasGradeAndPercentage ==
    (pc = "returned" /\ call.outcome.v.success) =>
        /\ call.outcome.v.grade # None
        /\ call.outcome.v.percentage # None

\* C3 amended: in a result with success = true, simple format has grade and
\* percentage present; comprehensive format (and any unrecognized one) has
\* percentage present, and grade absent exactly when no score pattern and no
\* "%"-suffixed number matches; json format has grade (percentage) absent
\* exactly when the object gives total_score (percentage) as null.
C3_PresenceBySuccessfulFormat ==
    (pc = "returned" /\ call.outcome.v.success) =>
        CASE call.fmt = "simple" ->
                /\ call.outcome.v.grade # None
                /\ call.outcome.v.percentage # None
          [] call.fmt = "json" ->
                \E object \in {Decoded(call.response.raw_response).v.o} :
                    /\ call.outcome.v.grade = None
                        <=> /\ "total_score" \in DOMAIN object
                            /\ object["total_score"] = None
                    /\ call.outcome.v.percentage = None
                        <=> /\ "percentage" \in DOMAIN object
                            /\ object["percentage"] = None
          [] OTHER ->
                \E text \in {call.response.raw_response.s} :
                    /\ call.outcome.v.percentage # None
                    /\ call.outcome.v.grade = None
                        <=> /\ MatchingLabels(score_patterns, text) = {}
                            /\ percentage_search(text) = None

\* a json-format call that succeeded on an object whose total_score is null
C3_Witness ==
    /\ pc = "returned"
    /\ call.fmt = "json"
    /\ call.outcome.v.success
    /\ call.outcome.v.grade = None
    /\ call.outcome.v.percentage = Num(82)

\* C4: a call follows the order template-selected, request-sent, then the
\* failure branch (exactly when the client reported failure) or the parser
\* of the format; when the client reported failure the call returns a
\* failed result with the client's error message and elapsed time, grade and
\* feedback None, and no parser is entered.
C4_ClientFailureShortCircuits ==
    /\ \/ trace = <<>> /\ pc = "idle"
       \/ trace = <<"template_selected">> /\ pc = "template_selected"
       \/ trace = <<"template_selected", "request_sent">>
            /\ pc = "request_sent"
       \/ /\ CallEnded
          /\ trace = <<"template_selected", "request_sent",
                       IF call.response.success THEN parser_of(call.fmt)
                       ELSE "failure">>
    /\ (CallEnded /\ ~call.response.success) =>
        /\ pc = "returned"
        /\ ~call.outcome.v.success
        /\ call.outcome.v.error_message = call.response.error_message
        /\ Truthy(call.outcome.v.error_message)
        /\ call.outcome.v.processing_time = call.reply.elapsed
        /\ call.outcome.v.grade = None
        /\ call.outcome.v.feedback = None
        /\ call.returned.v.error = call.response.error_message
        /\ call.returned.v.processing_time = call.reply.elapsed

\* a call that ended in the failure branch after a reply with status 500
C4_Witness ==
    /\ pc = "returned"
    /\ call.reply.kind = "http"
    /\ call.reply.status = 500
    /\ call.reply.elapsed = MaxElapsed
    /\ trace = <<"template_selected", "request_sent", "failure">>
    /\ ~call.outcome.v.success

\* C5: a batch over N submissions never raises and returns exactly N
\* results, result i belonging to submission i.
C5_BatchReturnsEveryResult ==
    /\ batch.status # "raised"
    /\ batch.status = "returned" =>
        /\ Len(batch.returned) = Len(batch.subs)
        /\ \A i \in 1..Len(batch.subs) :
                batch.returned[i].student_id
                    = batch_arguments(batch.subs[i]).student_id

\* C6: every call that has ended sent exactly one request, and every batch
\* of N submissions that has ended sent exactly N.
C6_OneRequestPerSubmission ==
    /\ CallEnded =>
            Cardinality({i \in 1..Len(trace) : trace[i] = "request_sent"}) = 1
    /\ batch.status \in {"returned", "raised"} =>
            requests - batch.first_request = Len(batch.subs)

\* C7: in json and simple formats a successful response whose text is no
\* JSON gives a failed result with the parsing-error prefix, and the raw
\* response text is found in a field of the result the facade hands back.
C7_UnparseableKeepsRawText ==
    (/\ TextResponse
     /\ call.fmt \in {"json", "simple"}
     /\ Decoded(call.response.raw_response).raised) =>
        /\ pc = "returned"
        /\ ~call.returned.v.success
        /\ HasParsingErrorPrefix(call.returned.v.error)
        /\ \E field \in {"error", "feedback", "grade", "percentage",
                         "issues", "recommendations", "strengths"} :
            \E value \in {call.returned.v[field]} :
                \/ value = call.response.raw_response
                \/ /\ value.t = "str"
                   /\ Contains(value.s, call.response.raw_response.s)
                \/ /\ value.t = "dict"
                   /\ \E key \in DOMAIN value.o :
                        value.o[key] = call.response.raw_response

\* C8: in json format a response that is a JSON object without total_score
\* gives a failed result with the parsing-error prefix.
C8_MissingKeysFail ==
    (/\ TextResponse
     /\ call.fmt = "json"
     /\ ~Decoded(call.response.raw_response).raised
     /\ Decoded(call.response.raw_response).v.t = "dict"
     /\ "total_score" \notin DOMAIN Decoded(call.response.raw_response).v.o) =>
        /\ pc = "returned"
        /\ ~call.outcome.v.success
        /\ HasParsingErrorPrefix(call.outcome.v.error_message)

\* C9: in comprehensive format the grade is the number of the leftmost
\* match of the first of TOTAL, Total, Score, Grade that matches anywhere in
\* the text; without any, it is the first "%"-suffixed number; a grade that
\* was found is the percentage too ("Score: 87/100" gives 87 and 87); the
\* feedback is the raw text under the one key raw_text.
C9_FirstPatternInListOrderWins ==
    (TextResponse /\ call.fmt = "comprehensive") =>
        \E labels \in {<<Lit("TOTAL:"), Lit("Total:"), Lit("Score:"),
                         Lit("Grade:")>>} :
        \E text \in {call.response.raw_response.s} :
        \E matching \in {MatchingLabels(labels, text)} :
            /\ pc = "returned"
            /\ call.outcome.v.success
            /\ matching # {} =>
                \E k \in matching :
                    /\ \A other \in matching : k <= other
                    /\ call.outcome.v.grade
                        = score_group(text, score_search(labels[k], text))
            /\ matching = {} =>
                call.outcome.v.grade = percentage_search(text)
            /\ call.outcome.v.grade # None =>
                call.outcome.v.percentage = call.outcome.v.grade
            /\ text = ScoreLine(Lit("Score:"), 87) =>
                /\ call.outcome.v.grade = Num(87)
                /\ call.outcome.v.percentage = Num(87)
            /\ call.outcome.v.feedback
                = Dict([key \in {"raw_text"} |-> call.response.raw_response])
            /\ call.returned.v.grade = call.outcome.v.grade
            /\ call.returned.v.percentage = call.outcome.v.percentage

\* a Grade line stands before a TOTAL line and the TOTAL line's number wins
C9_Witness ==
    /\ pc = "returned"
    /\ call.fmt = "comprehensive"
    /\ call.response.raw_response
        = Str(ScoreLine(Lit("Grade:"), 87) \o ScoreLine(Lit("TOTAL:"), 90))
    /\ call.outcome.v.grade = Num(90)
    /\ call.outcome.v.percentage = Num(90)

\* C10: in comprehensive format a response text in which no score pattern
\* and no "%"-suffixed number matches gives a result with success = true,
\* no error message, grade None and percentage 0.
C10_ScoreMissIsNoError ==
    (/\ TextResponse
     /\ call.fmt = "comprehensive"
     /\ MatchingLabels(score_patterns, call.response.raw_response.s) = {}
     /\ percentage_search(call.response.raw_response.s) = None) =>
        /\ pc = "returned"
        /\ call.outcome.v.success
        /\ call.outcome.v.error_message = None
        /\ call.outcome.v.grade = None
        /\ call.outcome.v.percentage = Num(0)
        /\ call.returned.v.success
        /\ call.returned.v.error = None
        /\ call.returned.v.grade = None
        /\ call.returned.v.percentage = Num(0)

\* a comprehensive call on a text with a label, a number and no "/100"
C10_Witness ==
    /\ pc = "returned"
    /\ call.fmt = "comprehensive"
    /\ call.response.raw_response
        = Str(<<Lit("TOTAL:"), Space, Digits(87)>>)
    /\ call.outcome.v.success
    /\ call.outcome.v.grade = None

\* the object the response text of the current call decodes to
DecodedObject == Decoded(call.response.raw_response).v.o

\* the current call got a text response that decodes to a JSON object
\* without an error key
ObjectResponse ==
    /\ TextResponse
    /\ ~Decoded(call.response.raw_response).raised
    /\ Decoded(call.response.raw_response).v.t = "dict"
    /\ "error" \notin DOMAIN DecodedObject

\* C11: in simple format every response object gives a successful result
\* with grade 100 when is_correct is true, 50 when is_correct is false or
\* missing and hints is empty or missing, 25 when is_correct is false or
\* missing and hints is non-empty; percentage equals grade and the issues are
\* the hints (the empty list when hints is missing).
C11_SimpleHeuristic ==
    (ObjectResponse /\ call.fmt = "simple") =>
        \E object \in {DecodedObject} :
        \E correct \in {/\ "is_correct" \in DOMAIN object
                        /\ object["is_correct"] = Bool(TRUE)} :
        \E hints \in {IF "hints" \in DOMAIN object THEN object["hints"]
                      ELSE List(<<>>)} :
            /\ pc = "returned"
            /\ call.outcome.v.success
            /\ call.outcome.v.grade =
                    IF correct THEN Num(100)
                    ELSE IF hints.items = <<>> THEN Num(50)
                    ELSE Num(25)
            /\ call.outcome.v.percentage = call.outcome.v.grade
            /\ call.outcome.v.issues = hints
            /\ call.returned.v.grade = call.outcome.v.grade
            /\ call.returned.v.issues = hints

\* a simple call on an object with is_correct false and one hint
C11_Witness ==
    /\ pc = "returned"
    /\ call.fmt = "simple"
    /\ ObjectResponse
    /\ "is_correct" \in DOMAIN DecodedObject
    /\ DecodedObject["is_correct"] = Bool(FALSE)
    /\ "hints" \in DOMAIN DecodedObject
    /\ DecodedObject["hints"].items # <<>>
    /\ call.outcome.v.grade = Num(25)

\* C12: in json format the percentage of a successful result is the
\* object's percentage when it has one; without one it is 0 when total_score
\* is 0 or missing, and equal to total_score for every integer total_score in
\* 0..100.
C12_PercentageEqualsScore ==
    (ObjectResponse /\ call.fmt = "json" /\ pc = "returned") =>
        \E object \in {DecodedObject} :
            /\ "percentage" \in DOMAIN object =>
                call.outcome.v.percentage = object["percentage"]
            /\ ("percentage" \notin DOMAIN object
                    /\ "total_score" \notin DOMAIN object) =>
                call.outcome.v.percentage = Num(0)
            /\ ("percentage" \notin DOMAIN object
                    /\ "total_score" \in DOMAIN object
                    /\ object["total_score"] \in {Num(n) : n \in 0..FullScore}) =>
                /\ call.outcome.v.percentage = object["total_score"]
                /\ call.returned.v.percentage = object["total_score"]

\* C13: the grade of every result grade_code returns is None or a number
\* from 0 to 100.
C13_GradeWithinRubric ==
    pc = "returned" =>
        \E grade \in {call.outcome.v.grade} :
            \/ grade = None
            \/ /\ grade.t = "num"
               /\ grade.n >= 0
               /\ \/ grade.n < FullScore
                  \/ grade.n = FullScore /\ grade.f = 0 /\ grade.off <= 0

\* C14: for a text that is valid JSON, parse_json_response gives the JSON
\* value for the bare text, and the same value for the text inside a json
\* fence and inside a plain fence.
C14_FenceRoundTrip ==
    (/\ call.bare # Pending
     /\ call.json_fenced # Pending
     /\ call.plain_fenced # Pending
     /\ ~json_loads(call.text.s).raised) =>
        /\ call.bare = json_loads(call.text.s)
        /\ call.json_fenced = call.bare
        /\ call.plain_fenced = call.bare

\* the result of parse_json_response for input is the error sentinel: an
\* object with a non-empty error text and the input as raw_response
IsErrorSentinel(result, input) ==
    /\ ~result.raised
    /\ result.v.t = "dict"
    /\ DOMAIN result.v.o = {"error", "raw_response"}
    /\ result.v.o["raw_response"] = input
    /\ result.v.o["error"].t = "str"
    /\ result.v.o["error"].s # <<>>

\* C15: parse_json_response never raises for a text, and for every text
\* that is no valid JSON once the fences are stripped it returns the error
\* sentinel with raw_response equal to the text as received.
C15_ParseFailureGivesSentinel ==
    /\ call.bare # Pending =>
        /\ ~call.bare.raised
        /\ Decoded(call.text).raised => IsErrorSentinel(call.bare, call.text)
    /\ call.json_fenced # Pending =>
        \E input \in {Str(JsonFenced(call.text.s))} :
            /\ ~call.json_fenced.raised
            /\ Decoded(input).raised =>
                    IsErrorSentinel(call.json_fenced, input)
    /\ call.plain_fenced # Pending =>
        \E input \in {Str(PlainFenced(call.text.s))} :
            /\ ~call.plain_fenced.raised
            /\ Decoded(input).raised =>
                    IsErrorSentinel(call.plain_fenced, input)

\* C16: the prompt of a call is the structured-JSON template for json and
\* for an unrecognized format, the simple-hint template for simple and the
\* comprehensive-text template for comprehensive (the same prompt
\* get_prompt_only gives); a successful response is handed to the JSON
\* parser for json, the simple parser for simple and the text scanner for
\* comprehensive and for an unrecognized format.
C16_TemplateAndParserByFormat ==
    pc \in {"template_selected", "request_sent", "returned", "raised"} =>
        /\ call.prompt =
            CASE call.fmt = "simple" ->
                    generate_simple_prompt(call.sub.problem, call.sub.code)
              [] call.fmt = "comprehensive" ->
                    generate_comprehensive_prompt(call.sub.problem,
                        call.sub.code, call.sub.model_solution)
              [] OTHER ->
                    generate_json_prompt(call.sub.problem, call.sub.code,
                                         call.sub.model_solution)
        /\ call.prompt = get_prompt_only(call.fmt, call.sub.problem,
                                         call.sub.code, call.sub.model_solution)
        /\ (CallEnded /\ call.response.success) =>
            /\ trace[3] = CASE call.fmt = "json" -> "parse_json"
                            [] call.fmt = "simple" -> "parse_simple"
                            [] OTHER -> "parse_text"
            /\ call.outcome =
                CASE call.fmt = "json" ->
                        parse_json_result(call.sub.student_id,
                            call.sub.problem, call.sub.code, call.response)
                  [] call.fmt = "simple" ->
                        parse_simple_result(call.sub.student_id,
                            call.sub.problem, call.sub.code, call.response)
                  [] OTHER ->
                        parse_text_result(call.sub.student_id,
                            call.sub.problem, call.sub.code, call.response)

\* a call with an unrecognized format: the JSON template, then the scanner
C16_Witness ==
    /\ pc = "returned"
    /\ call.fmt = "detailed"
    /\ call.prompt = generate_json_prompt(call.sub.problem, call.sub.code,
                                          call.sub.model_solution)
    /\ call.response.raw_response = Str(ScoreLine(Lit("Score:"), 87))
    /\ trace = <<"template_selected", "request_sent", "parse_text">>
    /\ call.outcome.v.grade = Num(87)

\* the connectivity response passes the test of test_connection: the client
\* call succeeded and its text contains "Connection successful"
CheckPassed(response) ==
    /\ response.success
    /\ response.raw_response.t = "str"
    /\ Contains(response.raw_response.s, <<ConnectionText>>)

\* C17: constructing the facade for a supported provider sends the
\* connectivity request exactly once; the facade is ready only if the client
\* call succeeded and the text contains "Connection successful"; otherwise
\* construction raises ConnectionError, and no grade_code or grade_multiple
\* call ever runs on that facade.
C17_ConnectivityCheckedOnce ==
    /\ facade.state = "absent" =>
        requests = 0 /\ pc = "idle" /\ call = NoCall /\ batch = NoBatch
    /\ (facade.state = "ready" /\ pc = "idle" /\ batch = NoBatch) =>
        requests = 1
    /\ facade.state = "ready" => CheckPassed(facade.check)
    /\ (facade.state = "failed" /\ facade.provider \in Providers) =>
        /\ requests = 1
        /\ ~CheckPassed(facade.check)
        /\ facade.error = "ConnectionError"
        /\ pc = "idle" /\ call = NoCall /\ batch = NoBatch

\* the fields of the structure the facade returns
FacadeFields ==
    {"student_id", "success", "grade", "percentage", "feedback", "issues",
     "recommendations", "strengths", "processing_time", "error"}

\* C18: every structure the facade returns has exactly the fields
\* student_id, success, grade, percentage, feedback, issues,
\* recommendations, strengths, processing_time and error; its issues,
\* recommendations and strengths are sequences, and they are empty wherever
\* the engine's result holds None for them.
C18_FacadeResultShape ==
    pc = "returned" =>
        /\ DOMAIN call.returned.v = FacadeFields
        /\ \A field \in {"issues", "recommendations", "strengths"} :
            /\ call.returned.v[field].t = "list"
            /\ call.outcome.v[field] = None =>
                    call.returned.v[field] = List(<<>>)
        /\ ~call.returned.v.success =>
            \A field \in {"issues", "recommendations", "strengths"} :
                call.returned.v[field] = List(<<>>)
        /\ (call.returned.v.success /\ call.fmt \notin {"json", "simple"}) =>
            \A field \in {"issues", "recommendations", "strengths"} :
                call.returned.v[field] = List(<<>>)
        /\ (call.returned.v.success /\ call.fmt = "simple") =>
            \A field \in {"recommendations", "strengths"} :
                call.returned.v[field] = List(<<>>)

\* C19: in every GradingResult the engine returns, issues, recommendations
\* and strengths are sequences, never None.
C19_EngineListsNeverAbsent ==
    pc = "returned" =>
        \A field \in {"issues", "recommendations", "strengths"} :
            /\ call.outcome.v[field] # None
            /\ call.outcome.v[field].t = "list"

\* C20: evaluate_code always returns a response; for a status outside
\* 200..299 the response is a failed one whose message holds the status code
\* and the error body, for a transport exception a failed one whose message
\* holds the exception text; in both the raw text is empty and the
\* processing time is the elapsed time.
C20_ClientFailuresBecomeResponses ==
    pc \in {"returned", "raised"} =>
        /\ DOMAIN call.response
            = {"success", "raw_response", "processing_time", "error_message"}
        /\ (call.reply.kind = "http" /\ call.reply.status \notin 200..299) =>
            /\ ~call.response.success
            /\ call.response.error_message.t = "str"
            /\ Contains(call.response.error_message.s,
                        <<Digits(call.reply.status)>>)
            /\ Contains(call.response.error_message.s, <<ErrorBody>>)
            /\ call.response.raw_response = Str(<<>>)
            /\ call.response.processing_time = call.reply.elapsed
        /\ call.reply.kind = "exception" =>
            /\ ~call.response.success
            /\ call.response.error_message.t = "str"
            /\ Contains(call.response.error_message.s, <<ExceptionText>>)
            /\ call.response.raw_response = Str(<<>>)
            /\ call.response.processing_time = call.reply.elapsed

\* a Gemini call that was answered with status 404
C20_Witness ==
    /\ pc = "returned"
    /\ facade.provider = "gemini"
    /\ call.reply.kind = "http"
    /\ call.reply.status = 404
    /\ call.reply.elapsed = MaxElapsed
    /\ ~call.response.success
    /\ call.response.error_message
        = Str(<<Lit("Gemini API error: "), Digits(404), Lit(" - "),
                ErrorBody>>)

DictResponse ==
    /\ TextResponse
    /\ ~Decoded(call.response.raw_response).raised
    /\ Decoded(call.response.raw_response).v.t = "dict"

\* the current call returned a failed result with the parsing-error prefix
ReportedParseFailure ==
    /\ pc = "returned"
    /\ ~call.outcome.v.success
    /\ HasParsingErrorPrefix(call.outcome.v.error_message)

\* C22: in json and simple formats a response that decodes to a JSON object
\* is reported as a failed result with the parsing-error prefix exactly when
\* the object has a top-level key error, whatever else it carries.
C22_ErrorKeyMeansParseFailure ==
    (DictResponse /\ call.fmt \in {"json", "simple"}) =>
        (ReportedParseFailure <=> "error" \in DOMAIN DecodedObject)

\* a json-format grading object with total_score 82 and an error key that
\* was reported as a parse failure
C22_Witness ==
    /\ DictResponse
    /\ call.fmt = "json"
    /\ {"error", "total_score"} \subseteq DOMAIN DecodedObject
    /\ DecodedObject["total_score"] = Num(82)
    /\ ReportedParseFailure
    /\ call.outcome.v.error_message
        = Str(<<ParsingErrorPrefix, Lit("none")>>)

\* the reply of the current call has status 200 and a body that holds the
\* completion path of the provider
CompletionFound ==
    /\ call.reply.kind = "http"
    /\ call.reply.status = 200
    /\ call.reply.shape = CompletionPath(facade.provider)

\* C23: the client reports success only for status 200 with the completion
\* text found at the provider's path: every other reply gives a failed
\* response with an error message, and a successful response carries the
\* extracted text as raw_response and no error message.
C23_SuccessCarriesText ==
    CallEnded =>
        /\ ~CompletionFound =>
            /\ ~call.response.success
            /\ call.response.error_message.t = "str"
        /\ call.response.success =>
            /\ CompletionFound
            /\ call.response.raw_response.t = "str"
            /\ call.response.raw_response = call.reply.content
            /\ call.response.error_message = None

====
